---------------------------- MODULE Spec2Model ----------------------------
(***************************************************************************)
(* A model of check-disk-io (main.go): the MetricGroup type with its       *)
(* AddMetric and Output methods, and executeCheck, which enumerates the    *)
(* partitions, fetches the I/O counters of each, distributes every counter *)
(* record over the 11 metric series and prints every series.               *)
(*                                                                         *)
(* Text is modelled as a sequence of tokens.  A token is a Go string that  *)
(* the program writes in one piece (a literal of a format string, a name,  *)
(* a tag key, a tag value, a decimal digit); the newline is the token NL.  *)
(* Concatenating Go strings is concatenating token sequences.              *)
(*                                                                         *)
(* Two specifications:                                                     *)
(*   Spec      - one run of executeCheck, step by step;                    *)
(*   SpecGroup - one MetricGroup under any sequence of AddMetric and       *)
(*               Output calls.                                             *)
(***************************************************************************)
EXTENDS Integers, Sequences, FiniteSets, TLC

VARIABLES
    pc,            \* position in executeCheck
    parts,         \* parts, the partitions returned by disk.Partitions
    pi,            \* index in parts of the partition p of the loop at line 140
    diskio,        \* diskio, the records returned by disk.IOCounters(p.Device)
    todo,          \* keys of diskio the range at line 145 has not yet visited
    v,             \* v, the record of the current iteration of line 145
    tags,          \* tags, the map built at line 146
    addIdx,        \* which of the AddMetric calls of lines 147-157 is next
    metricGroups,  \* metricGroups, the registry of line 82
    rest,          \* series the range at line 161 has not yet visited, in its order
    tagSeed,       \* orientation of the tag ranges (line 37) of this render pass
    stdout,        \* everything written to standard output so far
    ret,           \* what executeCheck returned
    calls,         \* history: the disk.IOCounters calls made and what they returned
    processed,     \* history: the records taken by the loop at line 145, in order
    g0,            \* SpecGroup: the MetricGroup as it was constructed
    g,             \* SpecGroup: the MetricGroup
    addLog,        \* SpecGroup: history of the AddMetric calls on g
    lastText,      \* SpecGroup: text of the last Output call, empty after an AddMetric
    renders        \* SpecGroup: Output calls since the last AddMetric (0, 1, 2 = two or more)

vars == << pc, parts, pi, diskio, todo, v, tags, addIdx, metricGroups, rest,
           tagSeed, stdout, ret, calls, processed,
           g0, g, addLog, lastText, renders >>

execVars  == << pc, parts, pi, diskio, todo, v, tags, addIdx, metricGroups, rest,
                tagSeed, stdout, ret, calls, processed >>
groupVars == << g0, g, addLog, lastText, renders >>

-----------------------------------------------------------------------------
(* Bounds of the model *)

\* most partitions disk.Partitions returns
MaxParts == 2
\* most AddMetric calls on the MetricGroup of SpecGroup
MaxAdds == 2

-----------------------------------------------------------------------------
(* Text *)

NL == "\n"

\* an absent value: the nil error, an unset variable
Nil == "<nil>"

RECURSIVE StrLen(_)
\* len(s) of the Go string the token sequence s stands for
StrLen(s) == IF s = <<>> THEN 0 ELSE Len(Head(s)) + StrLen(Tail(s))

DigitChar == << "0", "1", "2", "3", "4", "5", "6", "7", "8", "9" >>

RECURSIVE Digits(_)
\* the decimal digits of a natural number, most significant first
Digits(n) ==
    IF n < 10 THEN << DigitChar[n + 1] >>
    ELSE Digits(n \div 10) \o << DigitChar[(n % 10) + 1] >>

\* float64(u) of an unsigned counter u: exact below 2^53, and every counter
\* of the model is far below
Float64(u) == u

\* fmt.Sprintf("%v", f) of a float64 holding an integer of magnitude below
\* 10^21: the shortest decimal form, which has no point and no exponent
FormatV(f) == IF f < 0 THEN << "-" >> \o Digits(-f) ELSE Digits(f)

-----------------------------------------------------------------------------
(* MetricGroup *)

\* the Metric literal of AddMetric
Metric(t, value) == [Tags |-> t, Value |-> value]

\* a mutant of AddMetric: the new observation replaces the old ones
AddMetricReset(grp, t, value) ==
    [grp EXCEPT !.Metrics = << Metric(t, value) >>]

\* a mutant of AddMetric: the new observation goes first
AddMetricFront(grp, t, value) ==
    [grp EXCEPT !.Metrics = << Metric(t, value) >> \o @]

\* g.AddMetric(tags, value): the group after the call
AddMetric(grp, t, value) ==
    [grp EXCEPT !.Metrics = Append(@, Metric(t, value))]

\* a mutant of TagSep: the comma is written before the first pair too
TagSepAlways(tagStr) == tagStr \o << "," >>

\* lines 38-40: the separator before a pair
TagSep(tagStr) == IF StrLen(tagStr) > 0 THEN tagStr \o << "," >> ELSE tagStr

\* line 41: one pair appended
TagPair(tagStr, tag, tvalue) == tagStr \o << tag, "=\"", tvalue, "\"" >>

RECURSIVE TagLoop(_, _, _)
\* lines 37-42: the range over m.Tags, visiting the keys in the order ord
TagLoop(t, ord, tagStr) ==
    IF ord = <<>> THEN tagStr
    ELSE TagLoop(t, Tail(ord), TagPair(TagSep(tagStr), Head(ord), t[Head(ord)]))

\* lines 43-45: the braces
TagWrap(tagStr) ==
    IF StrLen(tagStr) > 0 THEN << "{" >> \o tagStr \o << "}" >> ELSE tagStr

\* lines 36-45: tagStr of one observation
TagStr(t, ord) == TagWrap(TagLoop(t, ord, <<>>))

\* lines 46-47: the line of one observation, with its newline
MetricLine(name, m, ord) ==
    << name >> \o TagStr(m.Tags, ord) \o << " " >> \o FormatV(m.Value) \o << NL >>

RECURSIVE MetricLines(_, _, _)
\* lines 35-48: the lines of the observations from the i-th on
MetricLines(grp, ords, i) ==
    IF i > Len(grp.Metrics) THEN <<>>
    ELSE MetricLine(grp.Name, grp.Metrics[i], ords[i]) \o MetricLines(grp, ords, i + 1)

\* line 33
HelpLine(grp) == << "# HELP ", grp.Name, " [", grp.Type, "] ", grp.Comment, NL >>

\* line 34
TypeLine(grp) == << "# TYPE ", grp.Name, " ", grp.Type, NL >>

\* a mutant of Output: the rendered observations are dropped from the group
OutputDrain(grp, ords) ==
    [Text  |-> HelpLine(grp) \o TypeLine(grp) \o MetricLines(grp, ords, 1) \o << NL >>,
     Group |-> [grp EXCEPT !.Metrics = <<>>]]

\* a mutant of Output: no blank line ends the block
OutputNoBlank(grp, ords) ==
    [Text  |-> HelpLine(grp) \o TypeLine(grp) \o MetricLines(grp, ords, 1),
     Group |-> grp]

\* g.Output(), where ords[i] is the order in which the range at line 37
\* visits the tags of the i-th observation: the text written and the group
\* after the call (Output assigns to no field of g)
Output(grp, ords) ==
    [Text  |-> HelpLine(grp) \o TypeLine(grp) \o MetricLines(grp, ords, 1) \o << NL >>,
     Group |-> grp]

-----------------------------------------------------------------------------
(* executeCheck: the registry and the AddMetric calls *)

\* the help texts of lines 86-136
CommentBytes ==
    "These values count the number of bytes read from or written to this block device."
CommentCount ==
    "These values increment when an I/O request completes."
CommentTime ==
    "These values count the number of milliseconds that I/O requests have waited on this block device. If there are multiple I/O requests waiting, these values will increase at a rate greater than 1000/second; for example, if 60 read requests wait for an average of 30 ms, the read_time field will increase by 60*30 = 1800."
CommentIoTime ==
    "This value counts the number of milliseconds during which the device has had I/O requests queued."
CommentWeightedIO ==
    "This value counts the number of milliseconds that I/O requests have waited on this block device. If there are multiple I/O requests waiting, this value will increase as the product of the number of milliseconds times the number of requests waiting (see disk_read_time for an example)."
CommentIopsInProgress ==
    "This value counts the number of I/O requests that have been issued to the device driver but have not yet completed. It does not include I/O requests that are in the queue but not yet issued to the device driver."
CommentMerged ==
    "Reads and writes which are adjacent to each other may be merged for efficiency. Thus, two 4K reads may become one 8K read before it is ultimately handed to the disk, and so it will be counted (and queued) as only one I/O. These fields lets you know how often this was done."

\* a MetricGroup literal of the registry: Metrics is nil
Group(name, type, comment) ==
    [Comment |-> comment, Type |-> type, Name |-> name, Metrics |-> <<>>]

\* a mutant of MetricGroupsInit: disk_iops_in_progress is declared a COUNTER
MetricGroupsAllCounters ==
    ("disk_read_bytes" :> Group("disk_read_bytes", "COUNTER", CommentBytes)) @@
    ("disk_write_bytes" :> Group("disk_write_bytes", "COUNTER", CommentBytes)) @@
    ("disk_read_count" :> Group("disk_read_count", "COUNTER", CommentCount)) @@
    ("disk_write_count" :> Group("disk_write_count", "COUNTER", CommentCount)) @@
    ("disk_read_time" :> Group("disk_read_time", "COUNTER", CommentTime)) @@
    ("disk_write_time" :> Group("disk_write_time", "COUNTER", CommentTime)) @@
    ("disk_io_time" :> Group("disk_io_time", "COUNTER", CommentIoTime)) @@
    ("disk_weighted_io" :> Group("disk_weighted_io", "COUNTER", CommentWeightedIO)) @@
    ("disk_iops_in_progress" :> Group("disk_iops_in_progress", "COUNTER", CommentIopsInProgress)) @@
    ("disk_merged_read_count" :> Group("disk_merged_read_count", "COUNTER", CommentMerged)) @@
    ("disk_merged_write_count" :> Group("disk_merged_write_count", "COUNTER", CommentMerged))

\* lines 82-138: the registry, as the map literal builds it
MetricGroupsInit ==
    ("disk_read_bytes" :> Group("disk_read_bytes", "COUNTER", CommentBytes)) @@
    ("disk_write_bytes" :> Group("disk_write_bytes", "COUNTER", CommentBytes)) @@
    ("disk_read_count" :> Group("disk_read_count", "COUNTER", CommentCount)) @@
    ("disk_write_count" :> Group("disk_write_count", "COUNTER", CommentCount)) @@
    ("disk_read_time" :> Group("disk_read_time", "COUNTER", CommentTime)) @@
    ("disk_write_time" :> Group("disk_write_time", "COUNTER", CommentTime)) @@
    ("disk_io_time" :> Group("disk_io_time", "COUNTER", CommentIoTime)) @@
    ("disk_weighted_io" :> Group("disk_weighted_io", "COUNTER", CommentWeightedIO)) @@
    ("disk_iops_in_progress" :> Group("disk_iops_in_progress", "GAUGE", CommentIopsInProgress)) @@
    ("disk_merged_read_count" :> Group("disk_merged_read_count", "COUNTER", CommentMerged)) @@
    ("disk_merged_write_count" :> Group("disk_merged_write_count", "COUNTER", CommentMerged))

\* the keys of the registry in the order the literal lists them
SeriesNames ==
    << "disk_read_bytes",
       "disk_write_bytes",
       "disk_read_count",
       "disk_write_count",
       "disk_read_time",
       "disk_write_time",
       "disk_io_time",
       "disk_weighted_io",
       "disk_iops_in_progress",
       "disk_merged_read_count",
       "disk_merged_write_count" >>

\* a mutant of AddCalls: the last call is missing
AddCallsShort ==
    << [series |-> "disk_read_bytes", field |-> "ReadBytes"],
       [series |-> "disk_write_bytes", field |-> "WriteBytes"],
       [series |-> "disk_read_count", field |-> "ReadCount"],
       [series |-> "disk_write_count", field |-> "WriteCount"],
       [series |-> "disk_read_time", field |-> "ReadTime"],
       [series |-> "disk_write_time", field |-> "WriteTime"],
       [series |-> "disk_io_time", field |-> "IoTime"],
       [series |-> "disk_weighted_io", field |-> "WeightedIO"],
       [series |-> "disk_iops_in_progress", field |-> "IopsInProgress"],
       [series |-> "disk_merged_read_count", field |-> "MergedReadCount"] >>

\* lines 147-157: the AddMetric calls made for one record, in order: the
\* series each is made on and the field of the record it passes
AddCalls ==
    << [series |-> "disk_read_bytes", field |-> "ReadBytes"],
       [series |-> "disk_write_bytes", field |-> "WriteBytes"],
       [series |-> "disk_read_count", field |-> "ReadCount"],
       [series |-> "disk_write_count", field |-> "WriteCount"],
       [series |-> "disk_read_time", field |-> "ReadTime"],
       [series |-> "disk_write_time", field |-> "WriteTime"],
       [series |-> "disk_io_time", field |-> "IoTime"],
       [series |-> "disk_weighted_io", field |-> "WeightedIO"],
       [series |-> "disk_iops_in_progress", field |-> "IopsInProgress"],
       [series |-> "disk_merged_read_count", field |-> "MergedReadCount"],
       [series |-> "disk_merged_write_count", field |-> "MergedWriteCount"] >>

-----------------------------------------------------------------------------
(* executeCheck: what its collaborators may return *)

\* sensu.CheckStateOK
CheckStateOK == 0

\* the errors a collaborator may return
Errors == { "permission denied" }

\* partitions the system may have: Device and Mountpoint of disk.PartitionStat
PartitionList ==
    << [Device |-> "/dev/sda1", Mountpoint |-> "/"],
       [Device |-> "/dev/sdb1", Mountpoint |-> "/data"],
       [Device |-> "/dev/sdc1", Mountpoint |-> "/home"] >>

\* what disk.Partitions may return as parts: up to MaxParts partitions
PartitionResults == { SubSeq(PartitionList, 1, n) : n \in 0 .. MaxParts }

\* a disk.IOCountersStat: its Name and its eleven counters
Stat(name, rb, wb, rc, wc, rt, wt, io, wio, iops, mrc, mwc) ==
    [Name |-> name, ReadBytes |-> rb, WriteBytes |-> wb, ReadCount |-> rc,
     WriteCount |-> wc, ReadTime |-> rt, WriteTime |-> wt, IoTime |-> io,
     WeightedIO |-> wio, IopsInProgress |-> iops, MergedReadCount |-> mrc,
     MergedWriteCount |-> mwc]

\* the records a disk.IOCounters call may choose from: one whose counters
\* all differ, and one with two counters set and the others zero
StatSamples ==
    { Stat("sdb", 11, 12, 13, 14, 15, 16, 17, 18, 19, 20, 21),
      Stat("sda", 1024, 2048, 0, 0, 0, 0, 0, 0, 0, 0, 0) }

\* what disk.IOCounters may return as its map, keyed by device name: no
\* record, one, or both
IOCountersResults ==
    { [n \in { s.Name : s \in S } |-> CHOOSE s \in S : s.Name = n] :
        S \in SUBSET StatSamples }

-----------------------------------------------------------------------------
(* executeCheck: the order of a range over a map *)

\* s rotated to start at its k-th element
Rotate(s, k) == SubSeq(s, k, Len(s)) \o SubSeq(s, 1, k - 1)

\* the orders in which the range at line 161 visits the registry.  Go leaves
\* the order of a map iteration unspecified and starts it at a position
\* drawn at random.  Of the 11! orders Spec explores 11: every starting key,
\* followed by the others in the order of the literal
RangeOrders(keys) == { Rotate(keys, k) : k \in 1 .. Len(keys) }

\* the tag keys of the program, and a third one for SpecGroup
TagKeyList == << "device", "mountpoint", "fstype" >>

\* the keys of the tag map t in the order of TagKeyList
KeysOf(t) == SelectSeq(TagKeyList, LAMBDA k : k \in DOMAIN t)

\* s reversed
Reverse(s) == [i \in 1 .. Len(s) |-> s[Len(s) + 1 - i]]

\* the orders of the range at line 37 that Spec explores: both orders of the
\* two tags, one drawn per render pass.  (SpecGroup draws an order for every
\* observation of every Output call: see AllOrders.)
TagSeeds == { "forward", "backward" }

\* the order of the range over the tag map t under an orientation
SeededOrder(t, seed) == IF seed = "forward" THEN KeysOf(t) ELSE Reverse(KeysOf(t))

\* ords of an Output call of Spec: one orientation for the whole render pass
SeededOrders(grp, seed) ==
    [i \in 1 .. Len(grp.Metrics) |-> SeededOrder(grp.Metrics[i].Tags, seed)]

-----------------------------------------------------------------------------
(* executeCheck, step by step *)

Init ==
    /\ pc = "partitions"
    /\ parts = <<>>
    /\ pi = 0
    /\ diskio = <<>>
    /\ todo = {}
    /\ v = Nil
    /\ tags = Nil
    /\ addIdx = 0
    /\ metricGroups = <<>>
    /\ rest = <<>>
    /\ tagSeed = Nil
    /\ stdout = <<>>
    /\ ret = Nil
    /\ calls = <<>>
    /\ processed = <<>>
    /\ g0 = Nil
    /\ g = Nil
    /\ addLog = <<>>
    /\ lastText = <<>>
    /\ renders = 0

\* lines 78-80: what is printed after disk.Partitions returned err
PartitionsDiagnostic(err) ==
    IF err # Nil THEN << "Failed to get partitions, error: ", err >> ELSE <<>>

\* lines 77-80: disk.Partitions returns (ps, err); parts is used either way
CallPartitions ==
    /\ pc = "partitions"
    /\ \E ps \in PartitionResults, err \in Errors \cup { Nil } :
          /\ parts' = ps
          /\ stdout' = stdout \o PartitionsDiagnostic(err)
    /\ pc' = "registry"
    /\ UNCHANGED << pi, diskio, todo, v, tags, addIdx, metricGroups, rest,
                    tagSeed, ret, calls, processed >>
    /\ UNCHANGED groupVars

\* lines 82-138: the registry is built; line 140 then starts its range
MakeRegistry ==
    /\ pc = "registry"
    /\ metricGroups' = MetricGroupsInit
    /\ pi' = 1
    /\ pc' = "loop"
    /\ UNCHANGED << parts, diskio, todo, v, tags, addIdx, rest, tagSeed,
                    stdout, ret, calls, processed >>
    /\ UNCHANGED groupVars

\* lines 142-144: what is printed after disk.IOCounters returned err
IOCountersDiagnostic(err) ==
    IF err # Nil THEN << "Failed to get IO counters, error: ", err >> ELSE <<>>

\* lines 142-145: the keys of diskio the range at line 145 will visit after
\* disk.IOCounters returned (io, err): no branch leaves the loop body
AfterIOCounters(io, err) == DOMAIN io

\* lines 140-144: the next partition p; disk.IOCounters(p.Device) returns
\* (io, err)
CallIOCounters ==
    /\ pc = "loop"
    /\ pi <= Len(parts)
    /\ \E io \in IOCountersResults, err \in Errors \cup { Nil } :
          /\ diskio' = io
          /\ todo' = AfterIOCounters(io, err)
          /\ stdout' = stdout \o IOCountersDiagnostic(err)
          /\ calls' = Append(calls, [Device |-> parts[pi].Device,
                                     Result |-> io, Err |-> err])
    /\ pc' = "records"
    /\ UNCHANGED << parts, pi, v, tags, addIdx, metricGroups, rest, tagSeed,
                    ret, processed >>
    /\ UNCHANGED groupVars

\* a mutant of MakeTags: the device is the partition's, not the record's
MakeTagsPartition(rec, p) == [device |-> p.Device, mountpoint |-> p.Mountpoint]

\* line 146
MakeTags(rec, p) == [device |-> rec.Name, mountpoint |-> p.Mountpoint]

\* lines 145-146: the range over diskio takes a record it has not visited
TakeRecord ==
    /\ pc = "records"
    /\ \E name \in todo :
          /\ v' = diskio[name]
          /\ tags' = MakeTags(diskio[name], parts[pi])
          /\ todo' = todo \ { name }
          /\ processed' = Append(processed, [Call |-> Len(calls),
                                             Name |-> diskio[name].Name,
                                             Mountpoint |-> parts[pi].Mountpoint])
    /\ addIdx' = 1
    /\ pc' = "add"
    /\ UNCHANGED << parts, pi, diskio, metricGroups, rest, tagSeed, stdout,
                    ret, calls >>
    /\ UNCHANGED groupVars

\* one of lines 147-157: the addIdx-th AddMetric call for the record v
DoAddMetric ==
    /\ pc = "add"
    /\ LET c == AddCalls[addIdx] IN
          metricGroups' = [metricGroups EXCEPT
                              ![c.series] = AddMetric(@, tags, Float64(v[c.field]))]
    /\ IF addIdx < Len(AddCalls)
          THEN /\ addIdx' = addIdx + 1
               /\ pc' = "add"
          ELSE /\ addIdx' = 0
               /\ pc' = "records"
    /\ UNCHANGED << parts, pi, diskio, todo, v, tags, rest, tagSeed, stdout,
                    ret, calls, processed >>
    /\ UNCHANGED groupVars

\* lines 158-159: the range over diskio is over; on to the next partition
EndRecords ==
    /\ pc = "records"
    /\ todo = {}
    /\ pi' = pi + 1
    /\ pc' = "loop"
    /\ UNCHANGED << parts, diskio, todo, v, tags, addIdx, metricGroups, rest,
                    tagSeed, stdout, ret, calls, processed >>
    /\ UNCHANGED groupVars

\* lines 159-161: the range over parts is over; the range over metricGroups
\* starts, in one of its orders
StartRender ==
    /\ pc = "loop"
    /\ pi > Len(parts)
    /\ rest' \in RangeOrders(SeriesNames)
    /\ tagSeed' \in TagSeeds
    /\ pc' = "render"
    /\ UNCHANGED << parts, pi, diskio, todo, v, tags, addIdx, metricGroups,
                    stdout, ret, calls, processed >>
    /\ UNCHANGED groupVars

\* lines 161-163: v.Output() of the next series of the range
RenderOne ==
    /\ pc = "render"
    /\ rest # <<>>
    /\ LET name == Head(rest)
           o    == Output(metricGroups[name],
                          SeededOrders(metricGroups[name], tagSeed))
       IN  /\ stdout' = stdout \o o.Text
           /\ metricGroups' = [metricGroups EXCEPT ![name] = o.Group]
    /\ rest' = Tail(rest)
    /\ UNCHANGED << pc, parts, pi, diskio, todo, v, tags, addIdx, tagSeed,
                    ret, calls, processed >>
    /\ UNCHANGED groupVars

\* line 165
Return ==
    /\ pc = "render"
    /\ rest = <<>>
    /\ ret' = [status |-> CheckStateOK, err |-> Nil]
    /\ pc' = "done"
    /\ UNCHANGED << parts, pi, diskio, todo, v, tags, addIdx, metricGroups,
                    rest, tagSeed, stdout, calls, processed >>
    /\ UNCHANGED groupVars

Next ==
    \/ CallPartitions
    \/ MakeRegistry
    \/ CallIOCounters
    \/ TakeRecord
    \/ DoAddMetric
    \/ EndRecords
    \/ StartRender
    \/ RenderOne
    \/ Return

Spec == Init /\ [][Next]_vars

-----------------------------------------------------------------------------
(* One MetricGroup under any sequence of AddMetric and Output calls *)

\* the groups SpecGroup starts from: a COUNTER and the GAUGE of the registry
GroupSamples ==
    { MetricGroupsInit["disk_read_bytes"], MetricGroupsInit["disk_iops_in_progress"] }

\* the arguments an AddMetric call of SpecGroup may pass: no tag (an empty
\* and a nil map are the same map here), one, two as executeCheck builds
\* them, three; a zero, a positive and a negative value
ObservationSamples ==
    { [Tags |-> <<>>, Value |-> 0],
      [Tags |-> [device |-> "sda"], Value |-> 7],
      [Tags |-> [device |-> "sda", mountpoint |-> "/"], Value |-> 1024],
      [Tags |-> [device |-> "sdb", mountpoint |-> "/data"], Value |-> 1024],
      [Tags |-> [device |-> "sda", mountpoint |-> "/", fstype |-> "ext4"],
       Value |-> -30] }

\* every order in which a range may visit the keys of the tag map t
Perms(t) ==
    LET n == Cardinality(DOMAIN t) IN
    { p \in [1 .. n -> DOMAIN t] : \A i, j \in 1 .. n : p[i] = p[j] => i = j }

\* every choice of ords for one Output call on grp: the range at line 37
\* draws its order anew for every observation
AllOrders(grp) ==
    { o \in [1 .. Len(grp.Metrics) -> UNION { Perms(s.Tags) : s \in ObservationSamples }] :
        \A i \in 1 .. Len(grp.Metrics) : o[i] \in Perms(grp.Metrics[i].Tags) }

InitGroup ==
    /\ pc = "group"
    /\ parts = <<>>
    /\ pi = 0
    /\ diskio = <<>>
    /\ todo = {}
    /\ v = Nil
    /\ tags = Nil
    /\ addIdx = 0
    /\ metricGroups = <<>>
    /\ rest = <<>>
    /\ tagSeed = Nil
    /\ stdout = <<>>
    /\ ret = Nil
    /\ calls = <<>>
    /\ processed = <<>>
    /\ g0 \in GroupSamples
    /\ g = g0
    /\ addLog = <<>>
    /\ lastText = <<>>
    /\ renders = 0

\* g.AddMetric(tags, value) with any arguments
GAddMetric ==
    /\ pc = "group"
    /\ Len(addLog) < MaxAdds
    /\ \E s \in ObservationSamples :
          /\ g' = AddMetric(g, s.Tags, s.Value)
          /\ addLog' = Append(addLog, s)
    /\ lastText' = <<>>
    /\ renders' = 0
    /\ UNCHANGED g0
    /\ UNCHANGED execVars

\* g.Output(), its tag ranges in any order
GOutput ==
    /\ pc = "group"
    /\ \E ords \in AllOrders(g) :
          LET o == Output(g, ords) IN
          /\ g' = o.Group
          /\ lastText' = o.Text
    /\ renders' = IF renders = 0 THEN 1 ELSE 2
    /\ UNCHANGED << g0, addLog >>
    /\ UNCHANGED execVars

NextGroup ==
    \/ GAddMetric
    \/ GOutput

SpecGroup == InitGroup /\ [][NextGroup]_vars

-----------------------------------------------------------------------------
(* Reading text back: lines, tag fragments, numbers *)

RECURSIVE LinesOf(_)
\* the lines of a text, without their newlines; what follows the last
\* newline, if anything, is the last line
LinesOf(s) ==
    IF s = <<>> THEN <<>>
    ELSE LET ends == { i \in 1 .. Len(s) : s[i] = NL }
         IN  IF ends = {} THEN << s >>
             ELSE LET k == CHOOSE i \in ends : \A j \in ends : i <= j
                  IN  << SubSeq(s, 1, k - 1) >> \o LinesOf(SubSeq(s, k + 1, Len(s)))

\* how many times the token c occurs in s
Count(s, c) == Cardinality({ i \in 1 .. Len(s) : s[i] = c })

\* the index of the blank that separates the name and tag fragment of an
\* observation line from its number: the last blank of the line
LastBlank(line) ==
    LET bs == { i \in 1 .. Len(line) : line[i] = " " }
    IN  IF bs = {} THEN 0 ELSE CHOOSE i \in bs : \A j \in bs : j <= i

\* the tag fragment of an observation line: what stands between the name
\* and the blank
FragmentOf(line) == SubSeq(line, 2, LastBlank(line) - 1)

\* the number token(s) of an observation line
NumberOf(line) == SubSeq(line, LastBlank(line) + 1, Len(line))

\* the value of a decimal digit
DigitVal(c) == (CHOOSE i \in 1 .. 10 : DigitChar[i] = c) - 1

RECURSIVE ParseNat(_)
\* the natural number a sequence of decimal digits denotes
ParseNat(d) ==
    IF d = <<>> THEN 0
    ELSE 10 * ParseNat(SubSeq(d, 1, Len(d) - 1)) + DigitVal(d[Len(d)])

\* whether d is a decimal numeral, with an optional sign
IsNumeral(d) ==
    LET u == IF d # <<>> /\ Head(d) = "-" THEN Tail(d) ELSE d
    IN  /\ u # <<>>
        /\ \A i \in 1 .. Len(u) : \E k \in 1 .. 10 : DigitChar[k] = u[i]

\* the integer a numeral denotes
ParseNumber(d) == IF Head(d) = "-" THEN -ParseNat(Tail(d)) ELSE ParseNat(d)

\* frag is the fragment of the tag set t in the shape of the exposition
\* format: nothing for no tag; otherwise an opening brace, one key="value"
\* pair per key of t, a comma between two pairs and nowhere else, a closing
\* brace.  Pair j stands at 5j-3 .. 5j, the comma after it at 5j+1.
FragmentShape(frag, t) ==
    LET n == Cardinality(DOMAIN t) IN
    IF n = 0 THEN frag = <<>>
    ELSE /\ Len(frag) = 5 * n + 1
         /\ frag[1] = "{"
         /\ frag[Len(frag)] = "}"
         /\ \A j \in 1 .. n :
               /\ frag[5 * j - 3] \in DOMAIN t
               /\ frag[5 * j - 2] = "=\""
               /\ frag[5 * j - 1] = t[frag[5 * j - 3]]
               /\ frag[5 * j] = "\""
               /\ j < n => frag[5 * j + 1] = ","
         /\ { frag[5 * j - 3] : j \in 1 .. n } = DOMAIN t
         /\ Count(frag, ",") = n - 1
         /\ Count(frag, "{") = 1
         /\ Count(frag, "}") = 1

\* line is an observation line of the series name carrying the tags t and
\* the value val
CarriesObservation(line, name, t, val) ==
    /\ Len(line) >= 3
    /\ line[1] = name
    /\ LastBlank(line) > 1
    /\ FragmentShape(FragmentOf(line), t)
    /\ IsNumeral(NumberOf(line))
    /\ ParseNumber(NumberOf(line)) = val

\* the key/value pairs of a well-shaped tag fragment, as a set
PairsOf(frag) ==
    { << frag[5 * j - 3], frag[5 * j - 1] >> : j \in 1 .. (Len(frag) \div 5) }

\* two lines are the same but for the order of the pairs of their fragments
SameButTagOrder(l1, l2) ==
    \/ l1 = l2
    \/ /\ Len(l1) = Len(l2)
       /\ LastBlank(l1) > 1
       /\ LastBlank(l1) = LastBlank(l2)
       /\ l1[1] = l2[1]
       /\ NumberOf(l1) = NumberOf(l2)
       /\ LET f1 == FragmentOf(l1)
              f2 == FragmentOf(l2)
          IN  /\ PairsOf(f1) = PairsOf(f2)
              /\ \A i \in 1 .. Len(f1) :
                    i % 5 # 2 /\ i % 5 # 4 => f1[i] = f2[i]

\* two texts have the same lines but for the order of pairs within fragments
SameTextButTagOrder(t1, t2) ==
    \/ t1 = t2
    \/ LET l1 == LinesOf(t1)
           l2 == LinesOf(t2)
       IN  /\ Len(l1) = Len(l2)
           /\ \A i \in 1 .. Len(l1) : SameButTagOrder(l1[i], l2[i])

\* the series of section 4.1 and their types
CatalogType ==
    [n \in { "disk_read_bytes", "disk_write_bytes", "disk_read_count",
             "disk_write_count", "disk_read_time", "disk_write_time",
             "disk_io_time", "disk_weighted_io", "disk_iops_in_progress",
             "disk_merged_read_count", "disk_merged_write_count" } |->
        IF n = "disk_iops_in_progress" THEN "GAUGE" ELSE "COUNTER"]

-----------------------------------------------------------------------------
(* Claims about one MetricGroup (SpecGroup) *)

\* the lines of the last Output call
LastLines == LinesOf(lastText)

\* C4, as the specification states it: rendering the same populated series
\* twice, with no AddMetric in between, writes identical text both times,
\* whatever the number of tags, and leaves the series unchanged.
C4_IdenticalText ==
    [][renders >= 1 /\ renders' >= 1 => lastText' = lastText /\ g' = g]_vars

\* C4, amended: rendering the same populated series twice, with no
\* AddMetric in between, leaves its name, type, help text and observations
\* unchanged and writes the same lines both times, except that the
\* key="value" pairs inside a tag fragment may come in another order; the
\* text is identical when no observation carries more than one tag.
C4_SameButTagOrder ==
    [][renders' >= 1 =>
          /\ g' = g
          /\ renders >= 1 =>
                /\ SameTextButTagOrder(lastText, lastText')
                /\ (\A i \in 1 .. Len(g.Metrics) :
                       Cardinality(DOMAIN g.Metrics[i].Tags) <= 1)
                   => lastText' = lastText]_vars

\* C4's case: a series with a two-tag and a three-tag observation has been
\* rendered twice
C4_Witness ==
    /\ renders = 2
    /\ \E i \in 1 .. Len(g.Metrics) : Cardinality(DOMAIN g.Metrics[i].Tags) = 2
    /\ \E i \in 1 .. Len(g.Metrics) : Cardinality(DOMAIN g.Metrics[i].Tags) = 3

\* C5: every observation line Output writes has, for an empty tag set, the
\* form <name> <value> with no braces, and for n >= 1 tags the fragment {,
\* n key="value" pairs, one per key, n-1 commas between them, none leading
\* or trailing, }.
C5_TagFragmentShape ==
    renders >= 1 =>
        /\ Len(LastLines) = Len(g.Metrics) + 3
        /\ \A i \in 1 .. Len(g.Metrics) :
              LET line == LastLines[i + 2]
                  t    == g.Metrics[i].Tags
              IN  /\ line[1] = g.Name
                  /\ LastBlank(line) > 1
                  /\ FragmentShape(FragmentOf(line), t)
                  /\ DOMAIN t = {} =>
                        /\ LastBlank(line) = 2
                        /\ Count(line, "{") = 0
                        /\ Count(line, "}") = 0
                        /\ Count(line, ",") = 0

\* C5's case: a rendered series with an observation without tags and one
\* with three tags
C5_Witness ==
    /\ renders >= 1
    /\ \E i \in 1 .. Len(g.Metrics) : DOMAIN g.Metrics[i].Tags = {}
    /\ \E i \in 1 .. Len(g.Metrics) : Cardinality(DOMAIN g.Metrics[i].Tags) = 3

\* C6: after any sequence of AddMetric calls the series holds one
\* observation per call, in call order, duplicates included, and Output
\* writes one observation line per call, the i-th carrying the tags and the
\* value of the i-th call.
C6_OneLinePerCall ==
    /\ pc = "group" =>
          /\ Len(g.Metrics) = Len(addLog)
          /\ \A i \in 1 .. Len(addLog) :
                /\ g.Metrics[i].Tags = addLog[i].Tags
                /\ g.Metrics[i].Value = addLog[i].Value
    /\ renders >= 1 =>
          /\ Len(LastLines) = Len(addLog) + 3
          /\ \A i \in 1 .. Len(addLog) :
                CarriesObservation(LastLines[i + 2], g0.Name,
                                   addLog[i].Tags, addLog[i].Value)

\* C6's case: two calls with the same tags and value, and the series has
\* been rendered
C6_Witness ==
    /\ renders >= 1
    /\ Len(addLog) >= 2
    /\ addLog[1] = addLog[2]

\* C8: Output on a series with k observations writes k+3 lines: the help
\* line # HELP <name> [<type>] <help text>, the type line # TYPE <name>
\* <type>, the k observation lines, one blank line; each ends with a newline.
C8_BlockLayout ==
    renders >= 1 =>
        LET k == Len(addLog) IN
        /\ Count(lastText, NL) = k + 3
        /\ lastText[Len(lastText)] = NL
        /\ Len(LastLines) = k + 3
        /\ LastLines[1] = << "# HELP ", g0.Name, " [", g0.Type, "] ", g0.Comment >>
        /\ LastLines[2] = << "# TYPE ", g0.Name, " ", g0.Type >>
        /\ \A i \in 1 .. k :
              /\ LastLines[i + 2] # <<>>
              /\ LastLines[i + 2][1] = g0.Name
        /\ LastLines[k + 3] = <<>>

\* C8's case: a series with no observation has been rendered
C8_Witness ==
    /\ renders >= 1
    /\ addLog = <<>>

-----------------------------------------------------------------------------
(* Claims about executeCheck (Spec) *)

\* the counter of a record that each series of section 4.1 reports
CatalogField ==
    [disk_read_bytes |-> "ReadBytes", disk_write_bytes |-> "WriteBytes",
     disk_read_count |-> "ReadCount", disk_write_count |-> "WriteCount",
     disk_read_time |-> "ReadTime", disk_write_time |-> "WriteTime",
     disk_io_time |-> "IoTime", disk_weighted_io |-> "WeightedIO",
     disk_iops_in_progress |-> "IopsInProgress",
     disk_merged_read_count |-> "MergedReadCount",
     disk_merged_write_count |-> "MergedWriteCount"]

\* the registry exists: line 138 has been passed
RegistryBuilt == pc \in { "loop", "records", "add", "render", "done" }

\* the index of the newline that ends the line starting at i
EndOfLine(s, i) ==
    CHOOSE j \in i .. Len(s) : s[j] = NL /\ \A h \in i .. (j - 1) : s[h] # NL

\* the lines of s that start with a series name at the beginning of a line
ObservationLines(s) ==
    { SubSeq(s, i, EndOfLine(s, i) - 1) :
        i \in { h \in 2 .. Len(s) : s[h - 1] = NL /\ s[h] \in DOMAIN CatalogType } }

\* the records the disk.IOCounters calls so far returned, as (call, name)
ReturnedRecords ==
    { c \in (DOMAIN calls) \X { s.Name : s \in StatSamples } :
        c[2] \in DOMAIN calls[c[1]].Result }

\* C1: whatever the partitions, the records and the failures, the standard
\* output of a finished run holds exactly 11 HELP/TYPE blocks, one for each
\* series of section 4.1 with its type (GAUGE for disk_iops_in_progress,
\* COUNTER for the others), each series once.
C1_ElevenBlocks ==
    pc = "done" =>
        LET helps == { i \in 1 .. Len(stdout) : stdout[i] = "# HELP " } IN
        /\ Cardinality(helps) = Cardinality(DOMAIN CatalogType)
        /\ Count(stdout, "# TYPE ") = Cardinality(DOMAIN CatalogType)
        /\ \A n \in DOMAIN CatalogType :
              \E i \in helps :
                 /\ stdout[i + 1] = n
                 /\ stdout[i + 2] = " ["
                 /\ stdout[i + 3] = CatalogType[n]
                 /\ stdout[i + 4] = "] "
                 /\ stdout[i + 6] = NL
                 /\ stdout[i + 7] = "# TYPE "
                 /\ stdout[i + 8] = n
                 /\ stdout[i + 9] = " "
                 /\ stdout[i + 10] = CatalogType[n]
                 /\ stdout[i + 11] = NL

\* C1's case: a finished run in which the enumeration failed and the counter
\* retrieval failed for the first of two partitions
C1_Witness ==
    /\ pc = "done"
    /\ Len(calls) = 2
    /\ calls[1].Err # Nil
    /\ stdout[1] = "Failed to get partitions, error: "

\* C2: in a finished run, every record returned by a disk.IOCounters call
\* that did not fail has an observation line in each of the 11 series,
\* tagged with the record's name and the partition's mount point and
\* carrying the series' counter, however many other calls failed; the
\* counters of every partition were asked for, and executeCheck returned
\* the OK status and a nil error.
C2_PartialFailure ==
    pc = "done" =>
        /\ ret = [status |-> CheckStateOK, err |-> Nil]
        /\ Len(calls) = Len(parts)
        /\ LET lines == ObservationLines(stdout) IN
           \A c \in ReturnedRecords :
              calls[c[1]].Err = Nil =>
                 \A n \in DOMAIN CatalogType :
                    \E line \in lines :
                       CarriesObservation(
                          line, n,
                          [device |-> c[2], mountpoint |-> parts[c[1]].Mountpoint],
                          calls[c[1]].Result[c[2]][CatalogField[n]])

\* C2's case: a finished run over two partitions; the call for the first
\* failed, the call for the second returned two records
C2_Witness ==
    /\ pc = "done"
    /\ Len(calls) = 2
    /\ calls[1].Err # Nil
    /\ calls[2].Err = Nil
    /\ Cardinality(DOMAIN calls[2].Result) = 2

\* C3: a partition whose disk.IOCounters call returned an error is skipped:
\* no series ever holds more observations than the calls that did not fail
\* returned records, whatever the failing calls returned with their error.
C3_FailedCallSkipped ==
    RegistryBuilt =>
        \A n \in DOMAIN metricGroups :
           Len(metricGroups[n].Metrics)
              <= Cardinality({ c \in ReturnedRecords : calls[c[1]].Err = Nil })

\* C7: from its creation on the registry has the 11 keys of section 4.1,
\* each mapped to a series of that name and type; no step changes a
\* series' Name, Type or Comment; a step changes at most one series, and
\* only by appending one observation to it.
C7_RegistryFrame ==
    [][/\ RegistryBuilt' =>
             /\ DOMAIN metricGroups' = DOMAIN CatalogType
             /\ \A n \in DOMAIN CatalogType :
                   /\ metricGroups'[n].Name = n
                   /\ metricGroups'[n].Type = CatalogType[n]
       /\ RegistryBuilt =>
             /\ \A n \in DOMAIN CatalogType :
                   /\ metricGroups'[n].Name = metricGroups[n].Name
                   /\ metricGroups'[n].Type = metricGroups[n].Type
                   /\ metricGroups'[n].Comment = metricGroups[n].Comment
                   /\ \/ metricGroups'[n].Metrics = metricGroups[n].Metrics
                      \/ /\ Len(metricGroups'[n].Metrics)
                              = Len(metricGroups[n].Metrics) + 1
                         /\ SubSeq(metricGroups'[n].Metrics, 1,
                                   Len(metricGroups[n].Metrics))
                              = metricGroups[n].Metrics
             /\ Cardinality({ n \in DOMAIN CatalogType :
                                 metricGroups'[n] # metricGroups[n] }) <= 1]_vars

\* C7's case: an AddMetric call has just appended to a series that already
\* held an observation
C7_Witness ==
    /\ pc = "add"
    /\ addIdx = 2
    /\ Len(metricGroups["disk_read_bytes"].Metrics) = 2
    /\ Len(metricGroups["disk_write_bytes"].Metrics) = 1

\* C9: every "# HELP" line starts at the beginning of an output line: no
\* diagnostic shares its line, and the first block starts with "# HELP ".
C9_HelpStartsLine ==
    \A i \in 1 .. Len(stdout) :
       stdout[i] = "# HELP " => i = 1 \/ stdout[i - 1] = NL

\* C10: between two records, and from the start of rendering on, every series
\* holds one observation per record taken so far, the i-th tagged with the
\* i-th record's name as device and its partition's mount point as
\* mountpoint; nothing of a series is written before every record of every
\* partition has been taken.
C10_SeriesInStep ==
    /\ pc \in { "loop", "records", "render", "done" } =>
          \A n \in DOMAIN metricGroups :
             /\ Len(metricGroups[n].Metrics) = Len(processed)
             /\ \A i \in 1 .. Len(processed) :
                   metricGroups[n].Metrics[i].Tags
                      = [device |-> processed[i].Name,
                         mountpoint |-> processed[i].Mountpoint]
    /\ pc \in { "partitions", "registry", "loop", "records", "add" } =>
          /\ Count(stdout, "# HELP ") = 0
          /\ Count(stdout, "# TYPE ") = 0
          /\ \A n \in DOMAIN CatalogType : Count(stdout, n) = 0
    /\ pc \in { "render", "done" } =>
          /\ Len(calls) = Len(parts)
          /\ todo = {}
          /\ Len(processed) = Cardinality(ReturnedRecords)

\* C10's case: the loop stands between the two records of a call
C10_Witness ==
    /\ pc = "records"
    /\ Len(processed) = 1
    /\ todo # {}

=============================================================================
